---- MODULE Spec2Model ----
(***************************************************************************)
(* A model of the ShaggyDog transformation service: the upload handler,    *)
(* the background execution process_image_generation with the three-stage  *)
(* pipeline generate_transformation_images, the breed classifier           *)
(* detect_dog_breed and the image retrieval handler serve_image.           *)
(*                                                                         *)
(* Representation.  A text (an exception message, a model response) is a   *)
(* sequence of lower-level words, so that concatenation (an f-string) is   *)
(* \o and "x in text" is a search for a run of words.  Image bytes are     *)
(* opaque tuples; the bytes an edit call returns are tagged with the stage *)
(* and the bytes it was given.  Python's None is the empty tuple for the   *)
(* fields that hold bytes, texts or a batch id, and the string "None" for  *)
(* breed_detected.  db.session.commit() is taken to succeed.               *)
(***************************************************************************)
EXTENDS Integers, Sequences, FiniteSets, TLC

\* ------------------------------------------------------------- bounds
\* the number of rows of the GeneratedImage table the model lets uploads create
MaxJobs == 2
\* the same, where one job is followed through everything that can happen to it
MaxSoloJobs == 1
\* the number of clock seconds that pass
MaxClock == 1
\* the rows uploads are let create when one account uploads for both pipelines
MaxBatchJobs == 4
\* the times ensure_png_under_4mb is run on one file
MaxRuns == 2
\* the largest mask whose pixels are all looked at
MaxMaskSize == 40

\* ------------------------------------------------------------ values
None == <<>>
NoneStr == "None"

\* bytes that are no image (allowed_file looks at the file's name only)
NotAnImage == <<"notAnImage">>
Readable(bytes) == bytes # NotAnImage
ALLOWED_EXTENSIONS == {"png", "jpg", "jpeg", "gif", "webp"}
\* the image_type values requested: the four slots, and one that is none
ImageTypes == {"original", "transition1", "transition2", "final", "thumbnail"}

\* ------------------------------------------------------------- texts
\* whether the run of words sub occurs in text
Contains(text, sub) ==
    \E i \in 0..(Len(text) - Len(sub)) : SubSeq(text, i + 1, i + Len(sub)) = sub

KeyMissingText == <<"OPENAI_API_KEY", "is", "not", "set.">>
\* what an external call (the edit endpoint, the download of its result) raises
ConnectionReset == <<"connection", "reset">>
EndpointNotFound == <<"edit", "endpoint", "not", "found">>
\* what creating or writing a temporary file raises
DiskError == <<"no", "space", "left", "on", "device">>
\* what an edit function raises on a response without data, and what the
\* download of the edited image raises
MalformedResponse == <<"api", "response", "missing", "or", "empty", "data", "attribute.">>
DownloadError == <<"503", "server", "error", "for", "url">>
\* the format of no response
NoResponse == "none"
\* what requests.get raises on the url None
InvalidUrl == <<"Invalid", "URL", "'None':", "No", "scheme", "supplied.">>
\* what os.unlink raises
UnlinkError == <<"permission", "denied">>
\* what PIL raises on bytes that are no image
OpenError == <<"cannot", "identify", "image", "file">>

\* -------------------------------------------------------- classifier
DOG_BREEDS == <<"golden_retriever", "labrador", "german_shepherd", "poodle",
                "bulldog", "beagle", "husky", "dachshund">>
BreedKeys == {DOG_BREEDS[i] : i \in 1..Len(DOG_BREEDS)}

breed_mapping ==
    << <<<<"golden", "retriever">>, "golden_retriever">>,
       <<<<"goldenretriever">>, "golden_retriever">>,
       <<<<"golden_retriever">>, "golden_retriever">>,
       <<<<"labrador">>, "labrador">>,
       <<<<"labrador", "retriever">>, "labrador">>,
       <<<<"labradorretriever">>, "labrador">>,
       <<<<"german", "shepherd">>, "german_shepherd">>,
       <<<<"germanshepherd">>, "german_shepherd">>,
       <<<<"german_shepherd">>, "german_shepherd">>,
       <<<<"alsatian">>, "german_shepherd">>,
       <<<<"poodle">>, "poodle">>,
       <<<<"bulldog">>, "bulldog">>,
       <<<<"english", "bulldog">>, "bulldog">>,
       <<<<"englishbulldog">>, "bulldog">>,
       <<<<"beagle">>, "beagle">>,
       <<<<"husky">>, "husky">>,
       <<<<"siberian", "husky">>, "husky">>,
       <<<<"siberianhusky">>, "husky">>,
       <<<<"dachshund">>, "dachshund">>,
       <<<<"wiener", "dog">>, "dachshund">>,
       <<<<"wienerdog">>, "dachshund">>,
       <<<<"sausage", "dog">>, "dachshund">>,
       <<<<"sausagedog">>, "dachshund">> >>

\* key.replace('_', ' ') as a run of words
KeyWithSpaces(key) ==
    CASE key = "golden_retriever" -> <<"golden", "retriever">>
      [] key = "german_shepherd" -> <<"german", "shepherd">>
      [] OTHER -> <<key>>

\* A model response, lower-cased: words is the whole response as words, json
\* is the value the regular expression extracts from a {"breed": "..."} object
\* in it (None when the expression does not match).
\* step 1: the JSON field, a canonical key or a key of breed_mapping
JsonBreed(resp) ==
    IF resp.json = None THEN NoneStr
    ELSE IF Len(resp.json) = 1 /\ resp.json[1] \in BreedKeys THEN resp.json[1]
    ELSE IF \E i \in 1..Len(breed_mapping) : breed_mapping[i][1] = resp.json
         THEN LET i == CHOOSE k \in 1..Len(breed_mapping) : breed_mapping[k][1] = resp.json
              IN  breed_mapping[i][2]
    ELSE NoneStr

\* step 2: the first canonical key found as a whole word, with underscores or spaces
DirectKeyBreed(resp) ==
    LET hit(i) == \/ Contains(resp.words, <<DOG_BREEDS[i]>>)
                  \/ Contains(resp.words, KeyWithSpaces(DOG_BREEDS[i]))
    IN  IF \E i \in 1..Len(DOG_BREEDS) : hit(i)
        THEN DOG_BREEDS[CHOOSE i \in 1..Len(DOG_BREEDS) :
                            hit(i) /\ \A k \in 1..(i - 1) : ~hit(k)]
        ELSE NoneStr

\* step 3: the first variant of breed_mapping found as whole words
MappingBreed(resp) ==
    LET hit(i) == Contains(resp.words, breed_mapping[i][1])
    IN  IF \E i \in 1..Len(breed_mapping) : hit(i)
        THEN breed_mapping[CHOOSE i \in 1..Len(breed_mapping) :
                               hit(i) /\ \A k \in 1..(i - 1) : ~hit(k)][2]
        ELSE NoneStr

IsRefusal(resp) ==
    \/ Contains(resp.words, <<"sorry">>)
    \/ Contains(resp.words, <<"can't", "help">>)

\* a parse that treats a refusal as one before it looks for a breed
ParseBreedRefusalFirst(resp) ==
    IF IsRefusal(resp) THEN BreedKeys
    ELSE IF JsonBreed(resp) # NoneStr THEN {JsonBreed(resp)}
    ELSE IF DirectKeyBreed(resp) # NoneStr THEN {DirectKeyBreed(resp)}
    ELSE IF MappingBreed(resp) # NoneStr THEN {MappingBreed(resp)}
    ELSE {"golden_retriever"}

\* a parse that looks for a key in the whole response before the JSON field
ParseBreedKeysFirst(resp) ==
    IF DirectKeyBreed(resp) # NoneStr THEN {DirectKeyBreed(resp)}
    ELSE IF JsonBreed(resp) # NoneStr THEN {JsonBreed(resp)}
    ELSE IF MappingBreed(resp) # NoneStr THEN {MappingBreed(resp)}
    ELSE IF IsRefusal(resp) THEN BreedKeys
    ELSE {"golden_retriever"}

\* the breeds the parse of a response can select (random.choice on a refusal)
ParseBreed(resp) ==
    IF JsonBreed(resp) # NoneStr THEN {JsonBreed(resp)}
    ELSE IF DirectKeyBreed(resp) # NoneStr THEN {DirectKeyBreed(resp)}
    ELSE IF MappingBreed(resp) # NoneStr THEN {MappingBreed(resp)}
    ELSE IF IsRefusal(resp) THEN BreedKeys
    ELSE {"golden_retriever"}

\* An outcome of a chat completion call: a response, or an exception.
Raised == [raised |-> TRUE]
Answer(json, words) == [raised |-> FALSE, json |-> json, words |-> words]

\* a classifier that lets the failure of both chat calls out as no breed
detect_dog_breed_unguarded(has_key, readable, mini, full) ==
    IF ~has_key \/ ~readable THEN {"golden_retriever"}
    ELSE IF ~mini.raised THEN ParseBreed(mini)
    ELSE IF ~full.raised THEN ParseBreed(full)
    ELSE {NoneStr}

\* the breeds detect_dog_breed can return: has_key is whether the credential
\* is set, readable whether PIL opens the file, mini and full the outcomes of
\* the gpt-4o-mini call and of the gpt-4o call made when the first raises
detect_dog_breed(has_key, readable, mini, full) ==
    IF ~has_key \/ ~readable THEN {"golden_retriever"}
    ELSE IF ~mini.raised THEN ParseBreed(mini)
    ELSE IF ~full.raised THEN ParseBreed(full)
    ELSE {"golden_retriever"}

\* the outcome detect_dog_breed goes by: the response it parses, Raised when
\* both calls raised, None when it makes no call
ChatSeen(has_key, readable, mini, full) ==
    IF ~has_key \/ ~readable THEN None
    ELSE IF ~mini.raised THEN mini
    ELSE full

\* the models called one after the other whatever the first call does
ChatCallsBothModels(has_key, readable, mini, full) ==
    IF ~has_key \/ ~readable THEN <<>>
    ELSE <<[model |-> "gpt-4o-mini", raised |-> mini.raised],
           [model |-> "gpt-4o", raised |-> full.raised]>>

\* the chat completion calls detect_dog_breed makes, in order, each with
\* whether it raised: none without the credential or the image, gpt-4o-mini
\* (line 100), and gpt-4o in the except clause of that call (line 129)
ChatCalls(has_key, readable, mini, full) ==
    IF ~has_key \/ ~readable THEN <<>>
    ELSE IF ~mini.raised THEN <<[model |-> "gpt-4o-mini", raised |-> FALSE]>>
    ELSE <<[model |-> "gpt-4o-mini", raised |-> TRUE],
           [model |-> "gpt-4o", raised |-> full.raised]>>

BeagleAnswer == Answer(<<"beagle">>, <<"breed", "beagle">>)

\* --------------------------------------------------- sizes and masks
\* A PNG file on disk: the width and height of its image, and whether
\* os.path.getsize of it is over max_size_bytes (3.5 MB).
PngFile(width, height, over) == [width |-> width, height |-> height, over |-> over]

\* ensure_png_under_4mb: the size it returns and the file it leaves;
\* resaved_over is whether the file saved again at 512x512 is still over
ensure_png_under_4mb(file, resaved_over) ==
    IF ~file.over
    THEN [actual_size |-> 1024, file |-> file]
    ELSE [actual_size |-> 512, file |-> PngFile(512, 512, resaved_over)]

\* a resize that keeps the proportions of the image
ResizeKeepsProportions(width, height, target_size) ==
    IF width >= height
    THEN <<target_size, (height * target_size) \div width>>
    ELSE <<(width * target_size) \div height, target_size>>

\* lines 597-603: the image is made square on its larger dimension, then
\* resized to target_size when its width is not target_size
ResizeToTarget(width, height, target_size) ==
    LET size_dim == IF width >= height THEN width ELSE height
        squared == IF width # height THEN <<size_dim, size_dim>> ELSE <<width, height>>
    IN  IF squared[1] # target_size THEN <<target_size, target_size>> ELSE squared

\* a top offset of a quarter of the size
QuarterOf(target_size) == target_size \div 4

\* int(target_size * 0.5) and int(target_size * 0.2)
HalfOf(target_size) == target_size \div 2
FifthOf(target_size) == (2 * target_size) \div 10

\* create_face_mask: an opaque target_size square with a transparent
\* ellipse drawn in the box [face_left, face_top, face_right, face_bottom]
create_face_mask(target_size) ==
    LET face_region_size == HalfOf(target_size)
        face_top_offset == FifthOf(target_size)
        face_left == (target_size - face_region_size) \div 2
        face_top == face_top_offset
    IN  [shape |-> "face",
         width |-> target_size,
         height |-> target_size,
         box |-> [left |-> face_left,
                  top |-> face_top,
                  right |-> face_left + face_region_size,
                  bottom |-> face_top + face_region_size]]

\* create_safe_radius_mask: an opaque square, the ellipse in the box border
\* made transparent and then the ellipse in the face's box made opaque;
\* border_expansion is int(face_region_size * 0.60)
create_safe_radius_mask(target_size) ==
    LET face_region_size == HalfOf(target_size)
        face_top_offset == FifthOf(target_size)
        face_left == (target_size - face_region_size) \div 2
        face_top == face_top_offset
        face_right == face_left + face_region_size
        face_bottom == face_top + face_region_size
        border_expansion == (6 * face_region_size) \div 10
    IN  [shape |-> "safe_radius",
         width |-> target_size,
         height |-> target_size,
         border |-> [left |-> face_left - border_expansion,
                     top |-> face_top - border_expansion,
                     right |-> face_right + border_expansion,
                     bottom |-> face_bottom + border_expansion],
         box |-> [left |-> face_left, top |-> face_top,
                  right |-> face_right, bottom |-> face_bottom]]

\* create_full_head_mask: an opaque square with a transparent ellipse in the
\* head's box; int(target_size * 0.65) and int(target_size * 0.05)
create_full_head_mask(target_size) ==
    LET head_region_size == (65 * target_size) \div 100
        head_top_offset == (5 * target_size) \div 100
        head_left == (target_size - head_region_size) \div 2
        head_top == head_top_offset
    IN  [shape |-> "full_head",
         width |-> target_size,
         height |-> target_size,
         box |-> [left |-> head_left,
                  top |-> head_top,
                  right |-> head_left + head_region_size,
                  bottom |-> head_top + head_region_size]]

\* create_head_and_body_mask: the same with a second transparent ellipse in
\* the body's box
create_head_and_body_mask(target_size) ==
    LET head_region_size == (65 * target_size) \div 100
        head_top_offset == (5 * target_size) \div 100
        head_left == (target_size - head_region_size) \div 2
        head_top == head_top_offset
        head_bottom == head_top + head_region_size
        body_width == (75 * target_size) \div 100
        body_left == (target_size - body_width) \div 2
    IN  [shape |-> "head_and_body",
         width |-> target_size,
         height |-> target_size,
         box |-> [left |-> head_left,
                  top |-> head_top,
                  right |-> head_left + head_region_size,
                  bottom |-> head_bottom],
         body |-> [left |-> body_left,
                   top |-> head_bottom - (2 * head_region_size) \div 10,
                   right |-> body_left + body_width,
                   bottom |-> (75 * target_size) \div 100]]

\* What an edit function submits to client.images.edit for an image of the
\* dimensions dims: the image file, the mask's dimensions and shape, and the
\* size parameter (over
\* keeps whether the file first saved was over the threshold).
\* mask_type "face" submits the face_mask it was passed, made anew only
\* when none was passed.
EditRequest(dims, target_size, mask_type, face_mask, over, resaved_over) ==
    LET img == ResizeToTarget(dims[1], dims[2], target_size)
        normal == ensure_png_under_4mb(PngFile(img[1], img[2], over), resaved_over)
        actual_size == normal.actual_size
        own_face_mask == IF face_mask = None THEN create_face_mask(actual_size)
                         ELSE face_mask
        mask == CASE mask_type = "safe_radius" -> create_safe_radius_mask(actual_size)
                  [] mask_type = "full_head" -> create_full_head_mask(actual_size)
                  [] mask_type = "head_and_body" -> create_head_and_body_mask(actual_size)
                  [] OTHER -> own_face_mask
    IN  [image |-> <<normal.file.width, normal.file.height>>,
         mask |-> <<mask.width, mask.height>>,
         shape |-> mask.shape,
         size |-> actual_size,
         over |-> over]

\* the alpha of pixel (x, y) of a mask: 255 as Image.new fills it, 0 where
\* draw.ellipse has filled the ellipse inscribed in the box
Alpha(mask, x, y) ==
    LET w == mask.box.right - mask.box.left
        h == mask.box.bottom - mask.box.top
        dx == 2 * x - (mask.box.left + mask.box.right)
        dy == 2 * y - (mask.box.top + mask.box.bottom)
    IN  IF dx * dx * h * h + dy * dy * w * w <= w * w * h * h THEN 0 ELSE 255

\* a last stage that makes the same mask for both pipelines
StageMaskTypeOneFinal(k, pipeline_type) ==
    CASE k = 1 -> "safe_radius"
      [] k = 2 -> "face"
      [] k = 3 -> "head_and_body"

\* whether draw.ellipse fills pixel (x, y) for the box
InEllipse(box, x, y) ==
    LET w == box.right - box.left
        h == box.bottom - box.top
        dx == 2 * x - (box.left + box.right)
        dy == 2 * y - (box.top + box.bottom)
    IN  dx * dx * h * h + dy * dy * w * w <= w * w * h * h

\* the alpha of pixel (x, y) of a safe radius mask: the face's ellipse is
\* drawn opaque over the transparent ellipse of the border
AlphaSafeRadius(mask, x, y) ==
    IF InEllipse(mask.box, x, y) THEN 255
    ELSE IF InEllipse(mask.border, x, y) THEN 0
    ELSE 255

\* the mask_type of stage k: the finalize functions make their own mask
StageMaskType(k, pipeline_type) ==
    CASE k = 1 -> "safe_radius"
      [] k = 2 -> "face"
      [] k = 3 -> IF pipeline_type = "dalle_gpt" THEN "full_head" ELSE "head_and_body"

\* ------------------------------------------------------------- state
VARIABLES
    db,        \* the GeneratedImage table: row i has id i
    threads,   \* the background threads started, in the order they started
    calls,     \* per thread, the edit calls it has made, in order
    clock,     \* the wall clock, in seconds, at the last upload
    api_key,   \* whether Config.OPENAI_API_KEY is set
    env,       \* what the users and the external services do in this run
    run        \* a function of image_processing.py run by itself: the
               \* function, its arguments and the results of its calls

vars == <<db, threads, calls, clock, api_key, env, run>>

Statuses == {"uploaded", "detecting", "generating_1", "generating_2",
             "generating_final", "completed", "error"}

\* GeneratedImage(...) as upload constructs it, with the column defaults
GeneratedImage(id, user_id, file_data, batch_id, pipeline_type, now) ==
    [id |-> id,
     user_id |-> user_id,
     original_image_data |-> file_data,
     breed_detected |-> NoneStr,
     status |-> "uploaded",
     error_message |-> None,
     image_1_data |-> None,
     image_2_data |-> None,
     final_dog_image_data |-> None,
     created_at |-> now,
     batch_id |-> batch_id,
     pipeline_type |-> pipeline_type]

\* a progress that counts the images stored, in tenths of a percent
ProgressByImages(status) ==
    CASE status = "generating_2" -> 333
      [] status = "generating_final" -> 667
      [] status = "completed" -> 1000
      [] OTHER -> 0

\* GeneratedImage.get_progress_percent, in tenths of a percent: the entry of
\* status_map for the status, 0 for a status that has none
get_progress_percent(status) ==
    CASE status = "uploaded" -> 0
      [] status = "detecting" -> 125
      [] status = "generating_1" -> 375
      [] status = "generating_2" -> 625
      [] status = "generating_final" -> 875
      [] status = "completed" -> 1000
      [] status = "error" -> 0
      [] OTHER -> 0

\* threading.Thread(target=process_image_generation, args=(image_id, pipeline_type));
\* handoff is the set of files of stage outputs on disk, named by their stage,
\* detections keeps, for each call of detect_dog_breed the thread has made,
\* the chat completion calls made in it
Thread(image_id, pipeline_type) ==
    [image_id |-> image_id,
     pipeline_type |-> pipeline_type,
     pc |-> "start",
     temp_original |-> None,
     breed |-> NoneStr,
     raw_response |-> None,
     images |-> [image_1 |-> None, image_2 |-> None, final |-> None],
     exc |-> None,
     handoff |-> {},
     detections |-> <<>>]

\* An environment: the accounts that upload and those that request images,
\* the files, file name extensions and pipeline_type form values uploaded,
\* the seconds the clock is let run to, the rows uploads are let create, the
\* outcomes of the chat completion calls, the texts the edit calls raise,
\* whether writing the temporary file of the original can fail, whether
\* the credential can be missing, the dimensions of the images the edit
\* functions open, whether a PNG file saved can be over 3.5 MB, whether
\* os.unlink can fail, and the formats the edit endpoint answers in.
InitEnv(e) ==
    /\ db = <<>>
    /\ threads = <<>>
    /\ calls = <<>>
    /\ clock = 0
    /\ api_key \in e.api_keys
    /\ env = e
    /\ run = None

\* ------------------------------------------------------------ upload
allowed_file(ext) == ext \in ALLOWED_EXTENSIONS

\* f"{current_user.id}_{timestamp}", the timestamp formatted to the second
BatchId(user_id, now) == <<user_id, now>>

\* a "both" upload whose two rows are given the same pipeline
UploadBothSameKind(user, file_data, now) ==
    LET batch_id == BatchId(user, now)
        id_1 == Len(db) + 1
        id_2 == Len(db) + 2
    IN  /\ Len(db) + 2 <= env.max_jobs
        /\ db' = db \o <<GeneratedImage(id_1, user, file_data, batch_id, "gpt_only", now),
                         GeneratedImage(id_2, user, file_data, batch_id, "gpt_only", now)>>
        /\ threads' = threads \o <<Thread(id_1, "gpt_only"), Thread(id_2, "gpt_only")>>
        /\ calls' = calls \o <<<<>>, <<>>>>

\* a "both" upload whose two threads are given the id of the first row
UploadBothOneTarget(user, file_data, now) ==
    LET batch_id == BatchId(user, now)
        id_1 == Len(db) + 1
        id_2 == Len(db) + 2
    IN  /\ Len(db) + 2 <= env.max_jobs
        /\ db' = db \o <<GeneratedImage(id_1, user, file_data, batch_id, "dalle_gpt", now),
                         GeneratedImage(id_2, user, file_data, batch_id, "gpt_only", now)>>
        /\ threads' = threads \o <<Thread(id_1, "dalle_gpt"), Thread(id_1, "gpt_only")>>
        /\ calls' = calls \o <<<<>>, <<>>>>

UploadBoth(user, file_data, now) ==
    LET batch_id == BatchId(user, now)
        id_1 == Len(db) + 1
        id_2 == Len(db) + 2
    IN  /\ Len(db) + 2 <= env.max_jobs
        /\ db' = db \o <<GeneratedImage(id_1, user, file_data, batch_id, "dalle_gpt", now),
                         GeneratedImage(id_2, user, file_data, batch_id, "gpt_only", now)>>
        /\ threads' = threads \o <<Thread(id_1, "dalle_gpt"), Thread(id_2, "gpt_only")>>
        /\ calls' = calls \o <<<<>>, <<>>>>

UploadSingle(user, file_data, pipeline_type, now) ==
    LET id == Len(db) + 1
    IN  /\ Len(db) + 1 <= env.max_jobs
        /\ db' = Append(db, GeneratedImage(id, user, file_data, None, pipeline_type, now))
        /\ threads' = Append(threads, Thread(id, pipeline_type))
        /\ calls' = Append(calls, <<>>)

\* POST /upload by a logged-in user with a file chosen, when the clock reads now
upload(user, file_data, ext, pipeline_type, now) ==
    /\ now >= clock
    /\ clock' = now
    /\ IF allowed_file(ext)
       THEN IF pipeline_type = "both"
            THEN UploadBoth(user, file_data, now)
            ELSE UploadSingle(user, file_data, pipeline_type, now)
       ELSE UNCHANGED <<db, threads, calls>>
    /\ UNCHANGED <<api_key, env, run>>

\* ------------------------------------------- process_image_generation
Goto(t, pc) == [threads EXCEPT ![t].pc = pc]

Raise(t, text) == [threads EXCEPT ![t].pc = "except", ![t].exc = text]

\* lines 211-223: load the row, write the original to a temporary file,
\* commit status 'detecting'
Begin(t) ==
    LET id == threads[t].image_id
    IN  /\ threads[t].pc = "start"
        /\ IF id \notin 1..Len(db)
           THEN /\ threads' = Goto(t, "done")
                /\ UNCHANGED db
           ELSE \E written \in env.disk_writes :
                   IF written
                   THEN /\ db' = [db EXCEPT ![id].status = "detecting"]
                        /\ threads' = [threads EXCEPT ![t].pc = "detect",
                                         ![t].temp_original = db[id].original_image_data]
                   ELSE /\ threads' = Raise(t, DiskError)
                        /\ UNCHANGED db
        /\ UNCHANGED <<calls, clock, api_key, env, run>>

\* the outcomes of the gpt-4o call, which is made only when the gpt-4o-mini
\* call raised
SecondChat(mini) == IF mini.raised THEN env.chat ELSE {mini}

\* a classification whose commit leaves breed_detected as it was
DetectKeepsBreedUnset(t) ==
    LET id == threads[t].image_id
    IN  /\ threads[t].pc = "detect"
        /\ \E mini \in env.chat : \E full \in SecondChat(mini) :
             \E breed \in detect_dog_breed(api_key, Readable(threads[t].temp_original),
                                           mini, full) :
                /\ db' = [db EXCEPT ![id].status = "generating_1"]
                /\ threads' = [threads EXCEPT
                                 ![t].pc = "stage1",
                                 ![t].breed = breed,
                                 ![t].raw_response =
                                     ChatSeen(api_key, Readable(threads[t].temp_original),
                                              mini, full),
                                 ![t].detections =
                                     Append(@, ChatCalls(api_key,
                                                         Readable(threads[t].temp_original),
                                                         mini, full))]
        /\ UNCHANGED <<calls, clock, api_key, env, run>>

\* lines 225-229: classify, commit the breed and status 'generating_1'
Detect(t) ==
    LET id == threads[t].image_id
    IN  /\ threads[t].pc = "detect"
        /\ \E mini \in env.chat : \E full \in SecondChat(mini) :
             \E breed \in detect_dog_breed(api_key, Readable(threads[t].temp_original),
                                           mini, full) :
                /\ db' = [db EXCEPT ![id].breed_detected = breed,
                                    ![id].status = "generating_1"]
                /\ threads' = [threads EXCEPT
                                 ![t].pc = "stage1",
                                 ![t].breed = breed,
                                 ![t].raw_response =
                                     ChatSeen(api_key, Readable(threads[t].temp_original),
                                              mini, full),
                                 ![t].detections =
                                     Append(@, ChatCalls(api_key,
                                                         Readable(threads[t].temp_original),
                                                         mini, full))]
        /\ UNCHANGED <<calls, clock, api_key, env, run>>

\* ------------------------------------- generate_transformation_images
StageError(k) ==
    CASE k = 1 -> <<"Stage", "1", "Error", "(adding", "ears):">>
      [] k = 2 -> <<"Stage", "2", "Error", "(adding", "snout):">>
      [] k = 3 -> <<"Stage", "3", "Error", "(finalizing", "with", "gpt-image-1):">>

\* every stage run by gpt-image-1
StageModelNewerOnly(k, pipeline_type) == "gpt-image-1"

\* the model behind stage k: DALL-E 2 (client.images.edit without a model)
\* for stages 1 and 2 of dalle_gpt, gpt-image-1 otherwise
StageModel(k, pipeline_type) ==
    IF k < 3 /\ pipeline_type = "dalle_gpt" THEN "dall-e-2" ELSE "gpt-image-1"

\* an edit function that reports a failure without the text it caught
EditErrorTextDropsOriginal(model, text) ==
    IF model = "dall-e-2" /\ (Contains(text, <<"edit">>) \/ Contains(text, <<"not", "found">>))
    THEN <<"Image", "editing", "API", "may", "not", "be", "available.">>
    ELSE text

\* the text an edit function raises when its call raises text: edit_image_with_dalle
\* rewrites a text that mentions "edit" or "not found", the others re-raise
EditErrorText(model, text) ==
    IF model = "dall-e-2" /\ (Contains(text, <<"edit">>) \/ Contains(text, <<"not", "found">>))
    THEN <<"Image", "editing", "API", "may", "not", "be", "available.",
           "DALL-E", "3", "doesn't", "support", "image", "editing.",
           "Original", "error:">> \o text
    ELSE text

\* the bytes the edit endpoint returns for stage k on the bytes source
Edited(k, source) == <<"edited", k, source>>

\* what happens to an edit call up to the fetch of its result: a response
\* that holds the image under a url that can be fetched or as b64_json, or
\* an exception with a text
EditOutcomes ==
    {[raised |-> FALSE, text |-> None, format |-> format] : format \in env.formats}
        \cup {[raised |-> TRUE, text |-> text, format |-> NoResponse] : text \in env.api_errors}

\* response.data[0] of a response that holds bytes in the format
DataItem(format, bytes) ==
    [url |-> IF format = "url" THEN <<"https", bytes>> ELSE None,
     b64_json |-> IF format = "b64_json" THEN <<"base64", bytes>> ELSE None]

\* requests.get(url).content and base64.b64decode(b64_json)
Fetched(url) == url[2]
b64decode(b64_json) == b64_json[2]

Returned(bytes) == [raised |-> FALSE, text |-> None, output |-> bytes]
Raising(text) == [raised |-> TRUE, text |-> text, output |-> None]

\* What an edit function does with response.data[0]: edit_image_with_dalle
\* fetches its url, whatever it is (lines 530-536); the gpt-image-1 functions
\* fetch the url when there is one, decode b64_json otherwise, and raise when
\* there is neither (lines 655-664).
ReadResponse(model, data_item) ==
    IF model = "dall-e-2"
    THEN IF data_item.url # None THEN Returned(Fetched(data_item.url))
         ELSE Raising(InvalidUrl)
    ELSE IF data_item.url # None THEN Returned(Fetched(data_item.url))
         ELSE IF data_item.b64_json # None THEN Returned(b64decode(data_item.b64_json))
         ELSE Raising(MalformedResponse)

\* every stage reading the file of the original
StageSourceOriginal(t, k) == threads[t].temp_original

\* the file stage k reads: the original, or the previous stage's hand-off file
StageSource(t, k) ==
    CASE k = 1 -> threads[t].temp_original
      [] k = 2 -> threads[t].images.image_1
      [] k = 3 -> threads[t].images.image_2

NextPc(k) == CASE k = 1 -> "stage2" [] k = 2 -> "stage3" [] k = 3 -> "commit1"

SetImage(images, k, data) ==
    CASE k = 1 -> [images EXCEPT !.image_1 = data]
      [] k = 2 -> [images EXCEPT !.image_2 = data]
      [] k = 3 -> [images EXCEPT !.final = data]

\* an except clause that lets the stage run again instead of raising
StageFailsRetries(t, k, text) == threads

\* the except clause of stage k's try block: the exception is re-raised as
\* "Stage k Error (...): text", which ends generate_transformation_images
StageFails(t, k, text) == Raise(t, StageError(k) \o text)

\* Where an edit function is left: "key" at the credential check, "save"
\* when saving the image to its temporary file raises, "request" when
\* client.images.edit raises, "response" on a response without data,
\* "download" when fetching the edited image raises, "return" at its return.
ExitPoint(text) ==
    CASE text = DiskError -> "save"
      [] text = MalformedResponse -> "response"
      [] text = DownloadError -> "download"
      [] text = InvalidUrl -> "download"
      [] OTHER -> "request"

\* the temporary files made by then: the image's (line 606), the mask's (line 633)
TempFilesCreated(exit) ==
    CASE exit = "key" -> {}
      [] exit = "save" -> {"img_temp"}
      [] OTHER -> {"img_temp", "mask_temp"}

\* a clean-up that only runs when the function returns
TempFilesUnlinkedOnReturn(exit) ==
    IF exit = "return" THEN {"img_temp", "mask_temp"} ELSE {}

\* the finally clause of the inner try block (lines 670-681): the mask's
\* file when mask_temp_path is set, and the image's file
TempFilesUnlinked(exit) ==
    IF exit = "key" THEN {}
    ELSE (IF "mask_temp" \in TempFilesCreated(exit) THEN {"mask_temp"} ELSE {})
            \cup {"img_temp"}

\* the files still there when the function is left; unlink_ok is whether
\* os.unlink succeeds
TempFilesLeft(exit, unlink_ok) ==
    IF unlink_ok THEN TempFilesCreated(exit) \ TempFilesUnlinked(exit)
    ELSE TempFilesCreated(exit)

\* a clean-up whose failure to delete is raised in place of the outcome
AfterFinallyRaising(primary, unlink_ok) ==
    IF unlink_ok THEN primary ELSE Raising(UnlinkError)

\* The outcome of an edit function after its finally clause and that of
\* generate_transformation_images: each os.unlink is in a try block whose
\* except clause passes, so the outcome of the try block stands.
AfterFinally(primary, unlink_ok) == primary

\* a clean-up that is skipped when an exception is on its way out
GenerateFinallyOnReturn(thread, unlink_ok) ==
    IF unlink_ok /\ thread.pc # "except" THEN [thread EXCEPT !.handoff = {}] ELSE thread

\* the finally clause of generate_transformation_images (lines 1089-1100):
\* the files of the outputs of stages 1 and 2 are unlinked
GenerateFinally(thread, unlink_ok) ==
    IF unlink_ok THEN [thread EXCEPT !.handoff = {}] ELSE thread

\* generate_transformation_images is left by thread t
LeaveGenerate(all_threads, t, unlink_ok) ==
    [all_threads EXCEPT ![t] = GenerateFinally(@, unlink_ok)]

\* what calls records of one call of an edit function: the stage, the model,
\* the bytes of the file it was given, whether a request was sent to the
\* endpoint and the request sent, the text the call raised (None when it
\* returned), the bytes it returned (None when it raised), where it was
\* left, the format of the response it got (NoResponse when it got none or could
\* not fetch from it), the outcome of its try block before the finally
\* clause, the temporary files it made and those it left behind
EditCall(k, model, source, request, text, output, exit, format, primary, unlink_ok) ==
    [stage |-> k, model |-> model, source |-> source, sent |-> request # None,
     request |-> request, text |-> text, output |-> output,
     exit |-> exit,
     format |-> format,
     primary |-> primary,
     temp_created |-> TempFilesCreated(exit),
     temp_left |-> TempFilesLeft(exit, unlink_ok)]

\* the request of stage k: the edit functions are called with their default
\* size and, before stage 3, with the face mask made at line 1008
StageRequest(t, k, dims, over, resaved_over) ==
    EditRequest(dims, 1024, StageMaskType(k, threads[t].pipeline_type),
                IF k = 3 THEN None ELSE create_face_mask(1024), over, resaved_over)

\* stage k's try block of generate_transformation_images
StageCall(t, k) ==
    LET model == StageModel(k, threads[t].pipeline_type)
        source == StageSource(t, k)
    IN  IF ~api_key
        THEN \* the edit function raises before it calls the endpoint
             /\ calls' = [calls EXCEPT ![t] =
                            Append(@, EditCall(k, model, source, None, KeyMissingText,
                                               None, "key", NoResponse,
                                               Raising(KeyMissingText), TRUE))]
             /\ \E unlink_ok \in env.unlinks :
                   threads' = LeaveGenerate(StageFails(t, k, KeyMissingText), t, unlink_ok)
        ELSE \E endpoint \in EditOutcomes, dims \in env.dims,
                over \in env.oversize, resaved_over \in env.oversize,
                unlink_ok \in env.unlinks :
                LET request == StageRequest(t, k, dims, over, resaved_over)
                    primary == IF endpoint.raised THEN Raising(endpoint.text)
                               ELSE ReadResponse(model,
                                                 DataItem(endpoint.format, Edited(k, source)))
                    exit == IF primary.raised THEN ExitPoint(primary.text) ELSE "return"
                    outcome == AfterFinally(primary, unlink_ok)
                IN
                IF outcome.raised
                THEN /\ calls' = [calls EXCEPT ![t] =
                                    Append(@, EditCall(k, model, source,
                                                       IF exit = "save" THEN None
                                                       ELSE request,
                                                       outcome.text, None, exit,
                                                       endpoint.format,
                                                       primary, unlink_ok))]
                     /\ threads' = LeaveGenerate(
                                       StageFails(t, k, EditErrorText(model, outcome.text)),
                                       t, unlink_ok)
                ELSE /\ calls' = [calls EXCEPT ![t] =
                                    Append(@, EditCall(k, model, source, request, None,
                                                       outcome.output, exit,
                                                       endpoint.format,
                                                       primary, unlink_ok))]
                     /\ threads' =
                          IF k < 3
                          THEN \* the output is written to a file for the next stage
                               [threads EXCEPT
                                  ![t].pc = NextPc(k),
                                  ![t].images = SetImage(@, k, outcome.output),
                                  ![t].handoff = @ \cup {k}]
                          ELSE LeaveGenerate([threads EXCEPT
                                                ![t].pc = NextPc(k),
                                                ![t].images = SetImage(@, k, outcome.output)],
                                             t, unlink_ok)

\* line 232 up to stage 1's result: the original is opened (lines 1000-1003),
\* then stage 1 runs
Stage1(t) ==
    /\ threads[t].pc = "stage1"
    /\ IF ~Readable(threads[t].temp_original)
       THEN /\ threads' = Raise(t, OpenError)
            /\ UNCHANGED calls
       ELSE StageCall(t, 1)
    /\ UNCHANGED <<db, clock, api_key, env, run>>

Stage2(t) ==
    /\ threads[t].pc = "stage2"
    /\ StageCall(t, 2)
    /\ UNCHANGED <<db, clock, api_key, env, run>>

\* stage 3, after which generate_transformation_images returns its dict
Stage3(t) ==
    /\ threads[t].pc = "stage3"
    /\ StageCall(t, 3)
    /\ UNCHANGED <<db, clock, api_key, env, run>>

\* a first commit of the status alone, the image left to the second commit
Commit1StatusOnly(t) ==
    LET id == threads[t].image_id
    IN  /\ threads[t].pc = "commit1"
        /\ db' = [db EXCEPT ![id].status = "generating_2"]
        /\ threads' = Goto(t, "commit2")
        /\ UNCHANGED <<calls, clock, api_key, env, run>>

\* a first commit that stores the image and moves the status two steps on
Commit1SkipsStatus(t) ==
    LET id == threads[t].image_id
    IN  /\ threads[t].pc = "commit1"
        /\ db' = [db EXCEPT ![id].image_1_data = threads[t].images.image_1,
                            ![id].status = "generating_final"]
        /\ threads' = Goto(t, "commit2")
        /\ UNCHANGED <<calls, clock, api_key, env, run>>

\* lines 234-237
Commit1(t) ==
    LET id == threads[t].image_id
    IN  /\ threads[t].pc = "commit1"
        /\ db' = [db EXCEPT ![id].image_1_data = threads[t].images.image_1,
                            ![id].status = "generating_2"]
        /\ threads' = Goto(t, "commit2")
        /\ UNCHANGED <<calls, clock, api_key, env, run>>

\* a second commit that stores the last image along with the second
Commit2StoresRest(t) ==
    LET id == threads[t].image_id
    IN  /\ threads[t].pc = "commit2"
        /\ db' = [db EXCEPT ![id].image_2_data = threads[t].images.image_2,
                            ![id].final_dog_image_data = threads[t].images.final,
                            ![id].status = "generating_final"]
        /\ threads' = Goto(t, "commit3")
        /\ UNCHANGED <<calls, clock, api_key, env, run>>

\* lines 239-241
Commit2(t) ==
    LET id == threads[t].image_id
    IN  /\ threads[t].pc = "commit2"
        /\ db' = [db EXCEPT ![id].image_2_data = threads[t].images.image_2,
                            ![id].status = "generating_final"]
        /\ threads' = Goto(t, "commit3")
        /\ UNCHANGED <<calls, clock, api_key, env, run>>

\* a last commit that also drops the bytes of the original
Commit3ClearsOriginal(t) ==
    LET id == threads[t].image_id
    IN  /\ threads[t].pc = "commit3"
        /\ db' = [db EXCEPT ![id].final_dog_image_data = threads[t].images.final,
                            ![id].status = "completed",
                            ![id].original_image_data = None]
        /\ threads' = Goto(t, "finally")
        /\ UNCHANGED <<calls, clock, api_key, env, run>>

\* lines 243-245
Commit3(t) ==
    LET id == threads[t].image_id
    IN  /\ threads[t].pc = "commit3"
        /\ db' = [db EXCEPT ![id].final_dog_image_data = threads[t].images.final,
                            ![id].status = "completed"]
        /\ threads' = Goto(t, "finally")
        /\ UNCHANGED <<calls, clock, api_key, env, run>>

\* a handler that marks every row of the failed row's batch
ExceptFailsBatch(t) ==
    LET id == threads[t].image_id
        hit(row) == \/ row.id = id
                    \/ row.batch_id # None /\ row.batch_id = db[id].batch_id
    IN  /\ threads[t].pc = "except"
        /\ db' = [i \in 1..Len(db) |->
                    IF hit(db[i])
                    THEN [db[i] EXCEPT !.status = "error",
                                       !.error_message = <<"Error:">> \o threads[t].exc]
                    ELSE db[i]]
        /\ threads' = Goto(t, "finally")
        /\ UNCHANGED <<calls, clock, api_key, env, run>>

\* a handler after which the thread goes on to the commits of the try block
ExceptFallsThrough(t) ==
    LET id == threads[t].image_id
    IN  /\ threads[t].pc = "except"
        /\ db' = [db EXCEPT ![id].status = "error",
                            ![id].error_message = <<"Error:">> \o threads[t].exc]
        /\ threads' = Goto(t, "commit1")
        /\ UNCHANGED <<calls, clock, api_key, env, run>>

\* a handler that only logs the exception
ExceptLeavesStatus(t) ==
    /\ threads[t].pc = "except"
    /\ threads' = Goto(t, "finally")
    /\ UNCHANGED <<db, calls, clock, api_key, env, run>>

\* a handler that marks the row without storing the text
ExceptStatusOnly(t) ==
    LET id == threads[t].image_id
    IN  /\ threads[t].pc = "except"
        /\ db' = [db EXCEPT ![id].status = "error"]
        /\ threads' = Goto(t, "finally")
        /\ UNCHANGED <<calls, clock, api_key, env, run>>

\* lines 247-258: the handler of any exception of the try block
Except(t) ==
    LET id == threads[t].image_id
    IN  /\ threads[t].pc = "except"
        /\ db' = IF id \in 1..Len(db)
                 THEN [db EXCEPT ![id].status = "error",
                                 ![id].error_message = <<"Error:">> \o threads[t].exc]
                 ELSE db
        /\ threads' = Goto(t, "finally")
        /\ UNCHANGED <<calls, clock, api_key, env, run>>

\* lines 259-265: the temporary file is removed and the thread ends; of the
\* thread the model keeps what it was started with, what it has called and
\* the files it has left
Finally(t) ==
    /\ threads[t].pc = "finally"
    /\ \E unlink_ok \in env.unlinks :
          threads' = [threads EXCEPT ![t] =
                        [Thread(@.image_id, @.pipeline_type) EXCEPT
                           !.pc = "done",
                           !.detections = threads[t].detections,
                           !.handoff = threads[t].handoff,
                           !.temp_original = IF unlink_ok THEN None
                                             ELSE threads[t].temp_original]]
    /\ UNCHANGED <<db, calls, clock, api_key, env, run>>

\* one step of thread t
Step(t) ==
    \/ Begin(t)
    \/ Detect(t)
    \/ Stage1(t)
    \/ Stage2(t)
    \/ Stage3(t)
    \/ Commit1(t)
    \/ Commit2(t)
    \/ Commit3(t)
    \/ Except(t)
    \/ Finally(t)

\* -------------------------------------------------------- serve_image
\* the response to GET /image/<image_id>/<image_type> by the logged-in user:
\* the status code, the message flashed and the body
\* a handler without the ownership check of lines 274-276
ServeResponseNoOwnerCheck(user, image_id, image_type) ==
    LET image_record == db[image_id]
        image_data ==
            CASE image_type = "original" -> image_record.original_image_data
              [] image_type = "transition1" -> image_record.image_1_data
              [] image_type = "transition2" -> image_record.image_2_data
              [] image_type = "final" -> image_record.final_dog_image_data
              [] OTHER -> None
    IN  IF image_id \notin 1..Len(db)
        THEN [status |-> 404, flash |-> "", body |-> None]
        ELSE IF image_type \notin {"original", "transition1", "transition2", "final"}
        THEN [status |-> 302, flash |-> "Invalid image type", body |-> None]
        ELSE IF image_data = None
        THEN [status |-> 302, flash |-> "Image not found", body |-> None]
        ELSE [status |-> 200, flash |-> "", body |-> image_data]

ServeResponse(user, image_id, image_type) ==
    LET image_record == db[image_id]
        image_data ==
            CASE image_type = "original" -> image_record.original_image_data
              [] image_type = "transition1" -> image_record.image_1_data
              [] image_type = "transition2" -> image_record.image_2_data
              [] image_type = "final" -> image_record.final_dog_image_data
              [] OTHER -> None
    IN  IF image_id \notin 1..Len(db)
        THEN [status |-> 404, flash |-> "", body |-> None]
        ELSE IF image_record.user_id # user
        THEN [status |-> 302, flash |-> "Unauthorized access", body |-> None]
        ELSE IF image_type \notin {"original", "transition1", "transition2", "final"}
        THEN [status |-> 302, flash |-> "Invalid image type", body |-> None]
        ELSE IF image_data = None
        THEN [status |-> 302, flash |-> "Image not found", body |-> None]
        ELSE [status |-> 200, flash |-> "", body |-> image_data]

\* the handler reads the table and writes nothing
serve_image(user, image_id, image_type) ==
    /\ ServeResponse(user, image_id, image_type).status \in {200, 302, 404}
    /\ UNCHANGED vars

\* ------------------------------------------------------ specification
Next ==
    \/ \E user \in env.uploaders, file_data \in env.files, ext \in env.extensions,
          pipeline_type \in env.forms, now \in clock..env.max_clock :
          upload(user, file_data, ext, pipeline_type, now)
    \/ \E t \in 1..Len(threads) : Step(t)
    \/ \E user \in env.viewers, image_id \in 1..env.max_jobs, image_type \in ImageTypes :
          serve_image(user, image_id, image_type)

\* Concurrent jobs of one account: every stage can succeed or fail.
PipelineEnv ==
    [uploaders |-> {1},
     viewers |-> {1},
     files |-> {<<"photoA">>},
     extensions |-> {"png"},
     forms |-> {"dalle_gpt", "gpt_only", "both"},
     max_clock |-> 0,
     max_jobs |-> MaxJobs,
     chat |-> {BeagleAnswer},
     api_errors |-> {ConnectionReset},
     disk_writes |-> {TRUE, FALSE},
     api_keys |-> {TRUE},
     dims |-> {<<1024, 1024>>},
     oversize |-> {FALSE},
     unlinks |-> {TRUE},
     formats |-> {"url"}]

Init == InitEnv(PipelineEnv)

Spec == Init /\ [][Next]_vars

\* One job at a time, with everything an execution can meet: a file that is
\* no image, a missing credential, a full disk, chat completion and edit
\* calls that raise.
SoloEnv ==
    [uploaders |-> {1},
     viewers |-> {1},
     files |-> {<<"photoA">>, NotAnImage},
     extensions |-> {"png"},
     forms |-> {"dalle_gpt", "gpt_only", "both", "turbo"},
     max_clock |-> 0,
     max_jobs |-> MaxSoloJobs,
     chat |-> {Raised, BeagleAnswer},
     api_errors |-> {ConnectionReset, EndpointNotFound},
     disk_writes |-> {TRUE, FALSE},
     api_keys |-> {TRUE, FALSE},
     dims |-> {<<1024, 1024>>},
     oversize |-> {FALSE},
     unlinks |-> {TRUE},
     formats |-> {"url"}]

InitSolo == InitEnv(SoloEnv)

SpecSolo == InitSolo /\ [][Next]_vars

\* the same with every started thread scheduled: a thread that can take a
\* step takes it in the end, each call it makes returning or raising
SpecSoloLive ==
    /\ InitSolo
    /\ [][Next]_vars
    /\ \A t \in 1..MaxSoloJobs : WF_vars(t <= Len(threads) /\ Step(t))

\* Two accounts that upload and request each other's images, while the
\* external services answer.
AccessEnv ==
    [uploaders |-> {1, 2},
     viewers |-> {1, 2},
     files |-> {<<"photoA">>, <<"photoB">>},
     extensions |-> {"png", "exe"},
     forms |-> {"gpt_only", "both"},
     max_clock |-> 0,
     max_jobs |-> MaxJobs,
     chat |-> {BeagleAnswer},
     api_errors |-> {},
     disk_writes |-> {TRUE},
     api_keys |-> {TRUE},
     dims |-> {<<1024, 1024>>},
     oversize |-> {FALSE},
     unlinks |-> {TRUE},
     formats |-> {"url"}]

InitAccess == InitEnv(AccessEnv)

SpecAccess == InitAccess /\ [][Next]_vars

\* One account that uploads for both pipelines, more than once in a second.
BatchEnv ==
    [uploaders |-> {1},
     viewers |-> {1},
     files |-> {<<"photoA">>},
     extensions |-> {"png"},
     forms |-> {"both"},
     max_clock |-> MaxClock,
     max_jobs |-> MaxBatchJobs,
     chat |-> {BeagleAnswer},
     api_errors |-> {},
     disk_writes |-> {TRUE},
     api_keys |-> {TRUE},
     dims |-> {<<1024, 1024>>},
     oversize |-> {FALSE},
     unlinks |-> {TRUE},
     formats |-> {"url"}]

InitBatch == InitEnv(BatchEnv)

SpecBatch == InitBatch /\ [][Next]_vars

\* One gpt_only job whose chat completion calls answer in every way the
\* parse tells apart, or raise.
JsonHusky == Answer(<<"husky">>, <<"breed", "husky">>)
JsonAlsatian == Answer(<<"alsatian">>, <<"breed", "alsatian">>)
JsonWienerDog == Answer(<<"wiener", "dog">>, <<"breed", "wiener", "dog">>)
JsonHuskyThenPoodle == Answer(<<"husky">>, <<"breed", "husky", "not", "poodle">>)
JsonCorgiThenBeagle == Answer(<<"corgi">>, <<"breed", "corgi", "or", "beagle">>)
PlainSiberianHusky == Answer(None, <<"a", "siberian", "husky", "look">>)
PlainGoldenRetriever == Answer(None, <<"golden", "retriever", "or", "labrador">>)
PlainSausageDog == Answer(None, <<"a", "sausage", "dog">>)
Refusal == Answer(None, <<"sorry", "i", "can't", "help", "with", "that">>)
RefusalWithBreed == Answer(None, <<"sorry", "perhaps", "a", "bulldog">>)
Gibberish == Answer(None, <<"xq", "zzv">>)
EmptyContent == Answer(None, <<>>)

Responses ==
    {JsonHusky, JsonAlsatian, JsonWienerDog, JsonHuskyThenPoodle, JsonCorgiThenBeagle,
     PlainSiberianHusky, PlainGoldenRetriever, PlainSausageDog,
     Refusal, RefusalWithBreed, Gibberish, EmptyContent}

ClassifierEnv ==
    [uploaders |-> {1},
     viewers |-> {1},
     files |-> {<<"photoA">>},
     extensions |-> {"png"},
     forms |-> {"gpt_only"},
     max_clock |-> 0,
     max_jobs |-> MaxSoloJobs,
     chat |-> Responses \cup {Raised},
     api_errors |-> {},
     disk_writes |-> {TRUE},
     api_keys |-> {TRUE, FALSE},
     dims |-> {<<1024, 1024>>},
     oversize |-> {FALSE},
     unlinks |-> {TRUE},
     formats |-> {"url"}]

InitClassifier == InitEnv(ClassifierEnv)

SpecClassifier == InitClassifier /\ [][Next]_vars

\* -------------------------------------- the imaging functions by themselves
\* the sizes the edit endpoint takes
TargetSizes == {256, 512, 1024}
SourceDims == {<<1024, 1024>>, <<640, 480>>, <<3000, 4000>>, <<512, 512>>, <<200, 200>>}
MaskSizes == 1..MaxMaskSize \cup {256, 512, 1000, 1024}
MaskFunctions == {"create_face_mask", "create_safe_radius_mask",
                  "create_full_head_mask", "create_head_and_body_mask"}

\* the table is empty and no thread runs; a function and its arguments are drawn
InitImaging ==
    /\ db = <<>>
    /\ threads = <<>>
    /\ calls = <<>>
    /\ clock = 0
    /\ api_key = TRUE
    /\ env = [max_runs |-> MaxRuns]
    /\ \/ \E dims \in SourceDims, target_size \in TargetSizes, over \in BOOLEAN :
             run = [fn |-> "ensure_png_under_4mb",
                    args |-> [dims |-> dims, target_size |-> target_size, over |-> over],
                    results |-> <<>>]
       \/ \E target_size \in MaskSizes, fn \in MaskFunctions :
             run = [fn |-> fn,
                    args |-> [target_size |-> target_size],
                    results |-> <<>>]

\* lines 594-613: an edit function called with size target_size resizes the
\* image, saves it and has ensure_png_under_4mb look at the file
SaveAndNormalize ==
    /\ run.fn = "ensure_png_under_4mb"
    /\ run.results = <<>>
    /\ \E resaved_over \in BOOLEAN :
          LET img == ResizeToTarget(run.args.dims[1], run.args.dims[2], run.args.target_size)
              file == PngFile(img[1], img[2], run.args.over)
          IN  run' = [run EXCEPT !.results = <<ensure_png_under_4mb(file, resaved_over)>>]
    /\ UNCHANGED <<db, threads, calls, clock, api_key, env>>

\* ensure_png_under_4mb called again on the file it left
Renormalize ==
    /\ run.fn = "ensure_png_under_4mb"
    /\ run.results # <<>>
    /\ Len(run.results) < env.max_runs
    /\ \E resaved_over \in BOOLEAN :
          run' = [run EXCEPT !.results =
                    Append(@, ensure_png_under_4mb(@[Len(@)].file, resaved_over))]
    /\ UNCHANGED <<db, threads, calls, clock, api_key, env>>

MakeMask ==
    /\ run.fn = "create_face_mask"
    /\ run.results = <<>>
    /\ run' = [run EXCEPT !.results = <<create_face_mask(run.args.target_size)>>]
    /\ UNCHANGED <<db, threads, calls, clock, api_key, env>>

MakeSafeRadiusMask ==
    /\ run.fn = "create_safe_radius_mask"
    /\ run.results = <<>>
    /\ run' = [run EXCEPT !.results = <<create_safe_radius_mask(run.args.target_size)>>]
    /\ UNCHANGED <<db, threads, calls, clock, api_key, env>>

MakeFullHeadMask ==
    /\ run.fn = "create_full_head_mask"
    /\ run.results = <<>>
    /\ run' = [run EXCEPT !.results = <<create_full_head_mask(run.args.target_size)>>]
    /\ UNCHANGED <<db, threads, calls, clock, api_key, env>>

MakeHeadAndBodyMask ==
    /\ run.fn = "create_head_and_body_mask"
    /\ run.results = <<>>
    /\ run' = [run EXCEPT !.results = <<create_head_and_body_mask(run.args.target_size)>>]
    /\ UNCHANGED <<db, threads, calls, clock, api_key, env>>

NextImaging ==
    \/ SaveAndNormalize
    \/ Renormalize
    \/ MakeMask
    \/ MakeSafeRadiusMask
    \/ MakeFullHeadMask
    \/ MakeHeadAndBodyMask

SpecImaging == InitImaging /\ [][NextImaging]_vars

\* One job whose images come in several dimensions, whose PNG files can be
\* over the threshold and whose edit functions are left at every point.
SizeEnv ==
    [uploaders |-> {1},
     viewers |-> {1},
     files |-> {<<"photoA">>},
     extensions |-> {"png"},
     forms |-> {"dalle_gpt", "gpt_only"},
     max_clock |-> 0,
     max_jobs |-> MaxSoloJobs,
     chat |-> {BeagleAnswer},
     api_errors |-> {ConnectionReset, MalformedResponse, DownloadError, DiskError},
     disk_writes |-> {TRUE},
     api_keys |-> {TRUE, FALSE},
     dims |-> {<<1024, 1024>>, <<640, 480>>, <<3000, 4000>>, <<512, 512>>},
     oversize |-> {FALSE, TRUE},
     unlinks |-> {TRUE},
     formats |-> {"url"}]

InitSize == InitEnv(SizeEnv)

SpecSize == InitSize /\ [][Next]_vars

\* One job, or the two of a batch, whose temporary files cannot always be
\* deleted.
CleanupEnv ==
    [uploaders |-> {1},
     viewers |-> {1},
     files |-> {<<"photoA">>},
     extensions |-> {"png"},
     forms |-> {"dalle_gpt", "gpt_only"},
     max_clock |-> 0,
     max_jobs |-> MaxSoloJobs,
     chat |-> {BeagleAnswer},
     api_errors |-> {ConnectionReset, DownloadError, DiskError},
     disk_writes |-> {TRUE, FALSE},
     api_keys |-> {TRUE},
     dims |-> {<<1024, 1024>>},
     oversize |-> {FALSE},
     unlinks |-> {TRUE, FALSE},
     formats |-> {"url"}]

InitCleanup == InitEnv(CleanupEnv)

SpecCleanup == InitCleanup /\ [][Next]_vars

\* One job whose edit calls are answered with a url or with b64_json.
FormatEnv ==
    [uploaders |-> {1},
     viewers |-> {1},
     files |-> {<<"photoA">>},
     extensions |-> {"png"},
     forms |-> {"dalle_gpt", "gpt_only", "both"},
     max_clock |-> 0,
     max_jobs |-> MaxSoloJobs,
     chat |-> {BeagleAnswer},
     api_errors |-> {ConnectionReset, MalformedResponse},
     disk_writes |-> {TRUE, FALSE},
     api_keys |-> {TRUE},
     dims |-> {<<1024, 1024>>},
     oversize |-> {FALSE},
     unlinks |-> {TRUE},
     formats |-> {"url", "b64_json"}]

InitFormat == InitEnv(FormatEnv)

SpecFormat == InitFormat /\ [][Next]_vars

\* ------------------------------------------------------------ claims
\* the row thread t was started for
Job(t) == db[threads[t].image_id]

\* the image slot of stage k
Slot(row, k) ==
    CASE k = 1 -> row.image_1_data
      [] k = 2 -> row.image_2_data
      [] k = 3 -> row.final_dog_image_data

StatusAfter(status) ==
    CASE status = "uploaded" -> "detecting"
      [] status = "detecting" -> "generating_1"
      [] status = "generating_1" -> "generating_2"
      [] status = "generating_2" -> "generating_final"
      [] status = "generating_final" -> "completed"
      [] OTHER -> status

\* C1: every change of a row's status is one step along uploaded, detecting,
\* generating_1, generating_2, generating_final, completed, or a move from a
\* status that is neither completed nor error to error.
C1_StatusStepwise ==
    [][\A id \in 1..Len(db) :
          \/ db'[id].status = db[id].status
          \/ db'[id].status = StatusAfter(db[id].status)
          \/ /\ db'[id].status = "error"
             /\ db[id].status \notin {"completed", "error"}]_vars

\* a job has gone through every status up to completed and another has
\* moved to error
C1_Witness ==
    /\ \E id \in 1..Len(db) : db[id].status = "completed"
    /\ \E id \in 1..Len(db) : db[id].status = "error"

\* the last call of an edit function thread t made, when it made one
LastCall(t) == calls[t][Len(calls[t])]

\* thread t has ended after an edit call of its raised
EndedOnFailedCall(t) ==
    /\ threads[t].pc = "done"
    /\ calls[t] # <<>>
    /\ LastCall(t).text # None

\* C2: when the edit call of stage k raises after the calls of the stages
\* before it returned, the job ends with status error, the slots of the
\* stages before k holding what their calls returned and the slots of
\* stages k to 3 unset.
C2_EarlierOutputsPersisted ==
    \A t \in 1..Len(threads) :
        EndedOnFailedCall(t) =>
            /\ Job(t).status = "error"
            /\ \A k \in 1..3 :
                  Slot(Job(t), k) = IF k < LastCall(t).stage
                                    THEN calls[t][k].output
                                    ELSE None

StageNumeral(k) == CASE k = 1 -> "1" [] k = 2 -> "2" [] k = 3 -> "3"

\* C3: when the edit call of stage k raises a text, the job ends with status
\* error and an error_message that contains "Stage k" and that text.
C3_ErrorNamesStageAndText ==
    \A t \in 1..Len(threads) :
        EndedOnFailedCall(t) =>
            /\ Job(t).status = "error"
            /\ Contains(Job(t).error_message, <<"Stage", StageNumeral(LastCall(t).stage)>>)
            /\ Contains(Job(t).error_message, LastCall(t).text)

\* a dalle_gpt job has ended on a stage 2 call that raised a text which
\* edit_image_with_dalle rewrites
C3_Witness ==
    \E t \in 1..Len(threads) :
        /\ EndedOnFailedCall(t)
        /\ LastCall(t).stage = 2
        /\ LastCall(t).model = "dall-e-2"
        /\ LastCall(t).text = EndpointNotFound
        /\ Job(t).status = "error"

\* C4: once the edit call of stage 2 has been made, image_1_data holds stage
\* 1's output and the status has left generating_1; once the call of stage 3
\* has been made, the same holds of image_2_data and generating_2.
C4_NextStageAfterCommit ==
    \A t \in 1..Len(threads) :
        \A n \in 1..Len(calls[t]) :
            calls[t][n].stage > 1 =>
                /\ Slot(Job(t), calls[t][n].stage - 1) = calls[t][n].source
                /\ Job(t).status \notin {"uploaded", "detecting", "generating_1"}

\* C5: a row whose status is error is changed by no step.
C5_ErrorIsTerminal ==
    [][\A id \in 1..Len(db) : db[id].status = "error" => db'[id] = db[id]]_vars

\* a job is in error, its thread has ended, and the thread of another job
\* is still at work
C5_Witness ==
    \E t \in 1..Len(threads), u \in 1..Len(threads) :
        /\ Job(t).status = "error"
        /\ threads[t].pc = "done"
        /\ threads[u].pc = "commit2"

\* C6: a thread calls the edit function of each stage at most once, and
\* makes no call after one that raised.
C6_EachStageOnce ==
    \A t \in 1..Len(threads) :
        /\ \A m, n \in 1..Len(calls[t]) : calls[t][m].stage = calls[t][n].stage => m = n
        /\ \A n \in 1..(Len(calls[t]) - 1) : calls[t][n].text = None

\* a thread has made the three calls, the last of which raised
C6_Witness ==
    \E t \in 1..Len(threads) :
        /\ Len(calls[t]) = 3
        /\ EndedOnFailedCall(t)

\* the rows a step appends to the table
NewRows == SubSeq(db', Len(db) + 1, Len(db'))

\* C7: an accepted upload with pipeline_type "both" appends, in one step,
\* exactly two rows that share a batch_id, hold the uploaded bytes, have
\* status uploaded and the pipeline types dalle_gpt and gpt_only; an accepted
\* upload with any other pipeline_type appends exactly one row, whose
\* batch_id is unset.
C7_UploadCreatesRows ==
    [][\A user \in env.uploaders, file_data \in env.files, ext \in env.extensions,
          pipeline_type \in env.forms, now \in 0..env.max_clock :
            (allowed_file(ext) /\ upload(user, file_data, ext, pipeline_type, now)) =>
                /\ SubSeq(db', 1, Len(db)) = db
                /\ \A n \in 1..Len(NewRows) :
                      /\ NewRows[n].user_id = user
                      /\ NewRows[n].original_image_data = file_data
                      /\ NewRows[n].status = "uploaded"
                /\ IF pipeline_type = "both"
                   THEN /\ Len(NewRows) = 2
                        /\ NewRows[1].batch_id # None
                        /\ NewRows[1].batch_id = NewRows[2].batch_id
                        /\ {NewRows[1].pipeline_type, NewRows[2].pipeline_type}
                               = {"dalle_gpt", "gpt_only"}
                   ELSE /\ Len(NewRows) = 1
                        /\ NewRows[1].batch_id = None
                        /\ NewRows[1].pipeline_type = pipeline_type]_vars

\* a "both" upload has just been committed: the table ends with two rows of
\* one batch, neither of which has been picked up by its thread
C7_Witness ==
    /\ Len(db) >= 2
    /\ db[Len(db)].batch_id # None
    /\ db[Len(db) - 1].batch_id = db[Len(db)].batch_id
    /\ db[Len(db)].status = "uploaded"
    /\ db[Len(db) - 1].status = "uploaded"

\* the rows that hold batch_id b
RowsOfBatch(b) == {id \in 1..Len(db) : db[id].batch_id = b}

\* C8: every batch_id that is set is held by exactly two rows, and the two
\* have different pipeline types.
C8_BatchIsPair ==
    \A id \in 1..Len(db) :
        db[id].batch_id # None =>
            /\ Cardinality(RowsOfBatch(db[id].batch_id)) = 2
            /\ \A other \in RowsOfBatch(db[id].batch_id) :
                  other # id => db[other].pipeline_type # db[id].pipeline_type

\* C9: a step of one job's thread changes no other row, whatever the step
\* and whatever the other row's batch.
C9_OtherRowsUntouched ==
    [][\A t \in 1..Len(threads) :
          Step(t) => \A id \in 1..Len(db) :
                        id # threads[t].image_id => db'[id] = db[id]]_vars

\* one row of a batch has ended in error and the other row of the batch
\* has completed
C9_Witness ==
    \E a, b \in 1..Len(db) :
        /\ a # b
        /\ db[a].batch_id # None
        /\ db[a].batch_id = db[b].batch_id
        /\ db[a].status = "error"
        /\ db[b].status = "completed"

\* C10: a request for a slot of an existing row by a user who is not the
\* row's owner gets no image bytes, whatever the slot name.
C10_OnlyOwnerGetsBytes ==
    \A user \in env.viewers, image_id \in 1..Len(db), image_type \in ImageTypes :
        db[image_id].user_id # user =>
            ServeResponse(user, image_id, image_type).body = None

\* a row has its final image, which its owner is served and another user
\* is refused
C10_Witness ==
    \E user \in env.viewers, image_id \in 1..Len(db) :
        /\ db[image_id].user_id # user
        /\ db[image_id].final_dog_image_data # None
        /\ ServeResponse(db[image_id].user_id, image_id, "final").status = 200
        /\ ServeResponse(user, image_id, "final").flash = "Unauthorized access"

\* C11: the step that classifies never raises and never leaves the breed
\* unset: whatever the two chat calls answer, and when they raise, the
\* thread goes on to stage 1 with one of the eight keys of DOG_BREEDS, which
\* is the breed committed to the row.
C11_ClassifierTotal ==
    [][\A t \in 1..Len(threads) :
          (threads[t].pc = "detect" /\ threads'[t].pc # "detect") =>
              /\ threads'[t].pc = "stage1"
              /\ threads'[t].exc = None
              /\ threads'[t].breed \in BreedKeys
              /\ db'[threads[t].image_id].breed_detected = threads'[t].breed]_vars

\* both chat calls raised and the thread is at stage 1 with a breed
C11_Witness ==
    \E t \in 1..Len(threads) :
        /\ threads[t].pc = "stage1"
        /\ threads[t].raw_response = Raised
        /\ Job(t).breed_detected \in BreedKeys

\* the thread has classified from a response and has not ended
Classified(t) ==
    /\ threads[t].pc \notin {"start", "detect", "done"}
    /\ threads[t].raw_response \notin {None, Raised}

\* the keys of which text is a name: the key itself, or a variant of breed_mapping
KeysNamedBy(text) ==
    {key \in BreedKeys :
        \/ text = <<key>>
        \/ \E i \in 1..Len(breed_mapping) :
              breed_mapping[i][1] = text /\ breed_mapping[i][2] = key}

\* the keys found in words as a whole word, with underscores or with spaces
KeysFoundIn(words) ==
    {key \in BreedKeys : Contains(words, <<key>>) \/ Contains(words, KeyWithSpaces(key))}

\* the keys a variant of which is found in words
VariantKeysFoundIn(words) ==
    {breed_mapping[i][2] : i \in {k \in 1..Len(breed_mapping) :
                                    Contains(words, breed_mapping[k][1])}}

\* C12: the breed classified from a response is (1) the key its "breed" JSON
\* field names, as a key or as a variant; failing that (2) a key found as a
\* whole word in the response, with underscores or spaces; failing that (3)
\* the key of a variant found in the response. {"breed": "husky"} gives
\* husky and the phrase "siberian husky" gives husky.
C12_ParseOrder ==
    \A t \in 1..Len(threads) :
        Classified(t) =>
            LET resp == threads[t].raw_response
                breed == threads[t].breed
            IN  /\ IF resp.json # None /\ KeysNamedBy(resp.json) # {}
                   THEN breed \in KeysNamedBy(resp.json)
                   ELSE IF KeysFoundIn(resp.words) # {}
                   THEN breed \in KeysFoundIn(resp.words)
                   ELSE VariantKeysFoundIn(resp.words) # {} =>
                            breed \in VariantKeysFoundIn(resp.words)
                /\ resp = JsonHusky => breed = "husky"
                /\ resp = PlainSiberianHusky => breed = "husky"

\* a response whose JSON field names one key while another key stands in
\* its text has been classified by the field
C12_Witness ==
    \E t \in 1..Len(threads) :
        /\ Classified(t)
        /\ threads[t].raw_response = JsonHuskyThenPoodle
        /\ Job(t).breed_detected = "husky"

\* none of the three steps finds a breed in the response
NoBreedIn(resp) ==
    /\ resp.json = None \/ KeysNamedBy(resp.json) = {}
    /\ KeysFoundIn(resp.words) = {}
    /\ VariantKeysFoundIn(resp.words) = {}

RefusalWords(words) == Contains(words, <<"sorry">>) \/ Contains(words, <<"can't", "help">>)

C14_NoPartialStateWithoutKey ==
    ~api_key =>
        \A id \in 1..Len(db) :
            /\ db[id].breed_detected = NoneStr
            /\ \A k \in 1..3 : Slot(db[id], k) = None

\* the requests sent: thread t's n-th call sent one
Sent(t, n) == n \in 1..Len(calls[t]) /\ calls[t][n].request # None

\* C15: in every request an edit function sends, the mask has the width and
\* height of the image, also when the image was saved again at 512x512.
C15_MaskMatchesImage ==
    \A t \in 1..Len(threads) :
        \A n \in 1..Len(calls[t]) :
            Sent(t, n) => calls[t][n].request.mask = calls[t][n].request.image

\* C18: the image of every request sent is square, whatever the dimensions
\* of the image opened; its side is 1024 when the PNG file saved at 1024 is
\* not over the threshold and 512 when it is, and its side is the size the
\* request asks for.
C18_SubmittedImageSquare ==
    \A t \in 1..Len(threads) :
        \A n \in 1..Len(calls[t]) :
            Sent(t, n) =>
                LET request == calls[t][n].request
                IN  /\ request.image[1] = request.image[2]
                    /\ request.image[1] = IF request.over THEN 512 ELSE 1024
                    /\ request.size = request.image[1]

\* a request has been sent with an image of 1024 and another with one of 512
C18_Witness ==
    \E t \in 1..Len(threads) :
        \E m, n \in 1..Len(calls[t]) :
            /\ Sent(t, m) /\ calls[t][m].request.image = <<1024, 1024>>
            /\ Sent(t, n) /\ calls[t][n].request.image = <<512, 512>>

\* ensure_png_under_4mb has been run on the file an edit function saved
Normalized == run # None /\ run.fn = "ensure_png_under_4mb" /\ run.results # <<>>

\* C16: the size ensure_png_under_4mb returns is the width and the height
\* of the image in the file it leaves, for the target sizes 256, 512 and
\* 1024 and for files over and under the threshold.
C16_ReportedSizeIsFileSize ==
    Normalized =>
        /\ run.results[1].file.width = run.results[1].actual_size
        /\ run.results[1].file.height = run.results[1].actual_size

\* C17: ensure_png_under_4mb run again on a file it saved at 512x512
\* returns 512 again and leaves the file at 512x512.
C17_DemotionIdempotent ==
    (Normalized /\ Len(run.results) >= 2 /\ run.results[1].actual_size = 512) =>
        /\ run.results[2].actual_size = 512
        /\ run.results[2].file.width = 512
        /\ run.results[2].file.height = 512

\* create_face_mask has been run
Masked == run # None /\ run.fn = "create_face_mask" /\ run.results # <<>>

\* C19: the face mask of size S is S by S, the box of its ellipse is
\* x in [(S - S div 2) div 2, (S - S div 2) div 2 + S div 2] and
\* y in [S div 5, S div 5 + S div 2], which at S = 1000 is x in [250, 750]
\* and y in [200, 700], and every pixel outside the box has alpha 255.
C19_FaceMaskRegion ==
    Masked =>
        LET S == run.args.target_size
            mask == run.results[1]
            left == (S - S \div 2) \div 2
            top == S \div 5
        IN  /\ mask.width = S /\ mask.height = S
            /\ mask.box = [left |-> left, top |-> top,
                           right |-> left + S \div 2, bottom |-> top + S \div 2]
            /\ S = 1000 => mask.box = [left |-> 250, top |-> 200,
                                       right |-> 750, bottom |-> 700]
            /\ mask.box.right < S /\ mask.box.bottom < S
            /\ S <= MaxMaskSize =>
                  \A x \in 0..(S - 1), y \in 0..(S - 1) :
                      (x < mask.box.left \/ x > mask.box.right
                         \/ y < mask.box.top \/ y > mask.box.bottom) =>
                          Alpha(mask, x, y) = 255

\* the mask of size 1000 has been made
C19_Witness ==
    /\ Masked
    /\ run.args.target_size = 1000
    /\ run.results[1].box.top = 200

\* C20: whenever an edit function has returned or raised, the temporary
\* files it made for the image and the mask are gone.
C20_TempFilesGone ==
    \A t \in 1..Len(threads) :
        \A n \in 1..Len(calls[t]) : calls[t][n].temp_left = {}

\* edit functions have been left at their return, with the request raising
\* and with the image's file made and the mask's not
C20_Witness ==
    \E t \in 1..Len(threads) :
        \E m, n \in 1..Len(calls[t]) :
            /\ calls[t][m].exit = "return"
            /\ calls[t][m].temp_created = {"img_temp", "mask_temp"}
            /\ calls[t][n].exit = "save"
            /\ calls[t][n].temp_created = {"img_temp"}

\* C21: a temporary file that cannot be deleted changes no outcome: each edit
\* call ends as its try block ended, returning its bytes or raising its own
\* text, a job whose three calls returned completes, and no error_message
\* holds the text of the failed deletion.
C21_CleanupFailureSwallowed ==
    /\ \A t \in 1..Len(threads) :
          /\ \A n \in 1..Len(calls[t]) :
                /\ calls[t][n].text = calls[t][n].primary.text
                /\ ~calls[t][n].primary.raised => calls[t][n].output # None
          /\ (threads[t].pc = "done" /\ Len(calls[t]) = 3 /\ LastCall(t).text = None) =>
                Job(t).status = "completed"
    /\ \A id \in 1..Len(db) : ~Contains(db[id].error_message, UnlinkError)

\* a job has completed although neither the files of its last edit call nor
\* the file of its original could be deleted
C21_Witness ==
    \E t \in 1..Len(threads) :
        /\ threads[t].pc = "done"
        /\ threads[t].temp_original # None
        /\ Len(calls[t]) = 3
        /\ LastCall(t).temp_left # {}
        /\ Job(t).status = "completed"

\* the threads started with the id of a row, after the step
ThreadsOf(id) == {t \in 1..Len(threads') : threads'[t].image_id = id}

\* C22: after every step each row has exactly one thread started with its id,
\* and the upload request ends with every row it made still uploaded and the
\* thread of each not yet begun.
C22_OneThreadPerRow ==
    [][\A id \in 1..Len(db') :
         /\ Cardinality(ThreadsOf(id)) = 1
         /\ id > Len(db) =>
               /\ db'[id].status = "uploaded"
               /\ \A t \in ThreadsOf(id) : threads'[t].pc = "start"]_vars

\* a "both" upload has returned, its two rows are uploaded and neither thread
\* has begun
C22_Witness ==
    /\ Len(db) = 2
    /\ db[1].batch_id # None
    /\ db[1].batch_id = db[2].batch_id
    /\ \A t \in 1..2 : threads[t].pc = "start" /\ Job(t).status = "uploaded"

\* the columns no thread assigns
Given(row) ==
    <<row.id, row.user_id, row.original_image_data, row.pipeline_type,
      row.batch_id, row.created_at>>

\* C23: no step changes the id, user_id, original_image_data, pipeline_type,
\* batch_id or created_at of a row, and every step that changes a row is a
\* step of a thread started with that row's id.
C23_ThreadWritesOwnOutcome ==
    [][\A id \in 1..Len(db) :
         /\ Given(db'[id]) = Given(db[id])
         /\ db'[id] # db[id] =>
               \E t \in 1..Len(threads) : threads[t].image_id = id /\ Step(t)]_vars

\* two jobs have ended, one completed with its breed and three images and
\* one in error, each still holding what the upload gave it
C23_Witness ==
    \E a, b \in 1..Len(db) :
        /\ db[a].status = "completed"
        /\ db[a].breed_detected # NoneStr
        /\ db[a].final_dog_image_data # None
        /\ db[b].status = "error"
        /\ db[b].error_message # None
        /\ \A id \in {a, b} :
              /\ db[id].original_image_data # None
              /\ db[id].pipeline_type = threads[id].pipeline_type

\* status values no code assigns
OtherStatuses == {"", "queued", "generating_3", "Completed"}

\* the progress of a row at a status, in tenths of a percent, as it should be
ProgressTable ==
    [s \in Statuses \cup OtherStatuses |->
        CASE s = "detecting" -> 125
          [] s = "generating_1" -> 375
          [] s = "generating_2" -> 625
          [] s = "generating_final" -> 875
          [] s = "completed" -> 1000
          [] OTHER -> 0]

\* C24: the progress of a row is 0, 12.5, 37.5, 62.5, 87.5 and 100 at uploaded,
\* detecting, generating_1, generating_2, generating_final and completed, 0
\* at error and at any other status, and every change of a row's status
\* other than to error raises it.
C24_ProgressByStatus ==
    [][/\ \A s \in Statuses \cup OtherStatuses : get_progress_percent(s) = ProgressTable[s]
       /\ \A id \in 1..Len(db) :
             /\ get_progress_percent(db'[id].status) = ProgressTable[db'[id].status]
             /\ (db'[id].status # db[id].status /\ db'[id].status # "error") =>
                   get_progress_percent(db'[id].status) > get_progress_percent(db[id].status)]_vars

\* one job has come to completed, at progress 100, while another is at
\* generating_1, at progress 37.5
C24_Witness ==
    \E a, b \in 1..Len(db) :
        /\ db[a].status = "completed"
        /\ get_progress_percent(db[a].status) = 1000
        /\ db[b].status = "generating_1"
        /\ get_progress_percent(db[b].status) = 375

\* C25: the pipeline_type of every row is dalle_gpt or gpt_only, whatever the
\* form value uploaded, and it is the pipeline_type the row's thread was
\* started with.
C25_PipelineTypeIsStrategy ==
    \A t \in 1..Len(threads) :
        /\ Job(t).pipeline_type \in {"dalle_gpt", "gpt_only"}
        /\ threads[t].pipeline_type = Job(t).pipeline_type

\* C26: an edit call that is answered, at any stage of either pipeline,
\* returns the bytes of the answer: those fetched from its url, or those
\* decoded from its b64_json when it has no url.
C26_EitherFormatAccepted ==
    \A t \in 1..Len(threads) : \A n \in 1..Len(calls[t]) :
        calls[t][n].format # NoResponse =>
            /\ calls[t][n].text = None
            /\ calls[t][n].output = Edited(calls[t][n].stage, calls[t][n].source)

\* the calls of stage k made for thread t that sent a request
SentAt(t, k) == {n \in 1..Len(calls[t]) : calls[t][n].stage = k /\ calls[t][n].sent}

C29_StatusNamesStageInProgress ==
    \A t \in 1..Len(threads) :
        /\ threads[t].pc = "detect" => Job(t).status = "detecting"
        /\ threads[t].pc = "stage1" => Job(t).status = "generating_1"
        /\ threads[t].pc = "stage2" => Job(t).status = "generating_2"
        /\ threads[t].pc = "stage3" => Job(t).status = "generating_final"

\* the slots a step sets in a row
SlotsSet(before, after) == {k \in 1..3 : Slot(before, k) = None /\ Slot(after, k) # None}

\* C30: after every step, a row with a final image has a second image and a
\* row with a second image has a first; no step changes or clears a slot
\* that is set; and a step that takes a row from generating_1, generating_2
\* or generating_final to the next status sets exactly one slot.
C30_SlotsInOrderWriteOnce ==
    [][\A id \in 1..Len(db) :
         /\ db'[id].final_dog_image_data # None => db'[id].image_2_data # None
         /\ db'[id].image_2_data # None => db'[id].image_1_data # None
         /\ \A k \in 1..3 : Slot(db[id], k) # None => Slot(db'[id], k) = Slot(db[id], k)
         /\ ( /\ db[id].status \in {"generating_1", "generating_2", "generating_final"}
              /\ db'[id].status = StatusAfter(db[id].status)
              /\ db'[id].status # db[id].status ) =>
               Cardinality(SlotsSet(db[id], db'[id])) = 1]_vars

\* a row has its first two images and not yet its last, while another row
\* has all three
C30_Witness ==
    \E a, b \in 1..Len(db) :
        /\ db[a].image_1_data # None
        /\ db[a].image_2_data # None
        /\ db[a].final_dog_image_data = None
        /\ \A k \in 1..3 : Slot(db[b], k) # None

\* C31: a row has an error_message exactly when its status is error.
C31_ErrorMessageIffError ==
    \A id \in 1..Len(db) :
        (db[id].error_message # None) <=> (db[id].status = "error")

\* a row is in error with its message, its thread ended, and no image stored
C31_Witness ==
    \E t \in 1..Len(threads) :
        /\ threads[t].pc = "done"
        /\ Job(t).status = "error"
        /\ Contains(Job(t).error_message, <<"Error:">>)
        /\ \A k \in 1..3 : Slot(Job(t), k) = None

\* C32: after every step the breed_detected of a row is unset or one of the
\* eight keys of DOG_BREEDS, and unset while the row is uploaded or
\* detecting; the step that takes a row to generating_1 sets it, and that is
\* the only step that changes it.
C32_BreedSetOnceAtGenerating1 ==
    [][\A id \in 1..Len(db') :
         /\ Cardinality(BreedKeys) = 8
         /\ db'[id].breed_detected \in BreedKeys \cup {NoneStr}
         /\ db'[id].status \in {"uploaded", "detecting"} =>
               db'[id].breed_detected = NoneStr
         /\ id <= Len(db) =>
               /\ (db'[id].status = "generating_1" /\ db[id].status # "generating_1") =>
                     db'[id].breed_detected # NoneStr
               /\ db'[id].breed_detected # db[id].breed_detected =>
                     /\ db[id].breed_detected = NoneStr
                     /\ db[id].status = "detecting"
                     /\ db'[id].status = "generating_1"]_vars

\* a row classified as a husky has gone on past generating_1 with that breed
C32_Witness ==
    \E id \in 1..Len(db) :
        /\ db[id].breed_detected = "husky"
        /\ db[id].status \in {"generating_2", "generating_final", "completed", "error"}

C34_ClassifiedExactlyOnce ==
    \A t \in 1..Len(threads) :
        /\ Len(threads[t].detections) <= 1
        /\ Len(calls[t]) > 0 => Len(threads[t].detections) = 1
        /\ threads[t].pc = "done" => Len(threads[t].detections) = 1
        /\ Job(t).status = "completed" =>
              /\ Len(calls[t]) = 3
              /\ \A k \in 1..3 : calls[t][k].stage = k /\ calls[t][k].output # None
              /\ calls[t][1].source = Job(t).original_image_data
              /\ calls[t][2].source = calls[t][1].output
              /\ calls[t][3].source = calls[t][2].output

\* C34: a thread classifies once at most, and has classified once before it
\* makes an edit call or its row is at generating_1 or beyond; a completed
\* job has made three edit calls, of stages 1, 2 and 3 in that order, the
\* first on the bytes of the original, the second on the bytes the first
\* returned and the third on the bytes the second returned.
C34_OneClassificationThreeChainedCalls ==
    \A t \in 1..Len(threads) :
        /\ Len(threads[t].detections) <= 1
        /\ ( \/ Len(calls[t]) > 0
             \/ Job(t).status \in {"generating_1", "generating_2",
                                   "generating_final", "completed"} ) =>
              Len(threads[t].detections) = 1
        /\ Job(t).status = "completed" =>
              /\ Len(calls[t]) = 3
              /\ \A k \in 1..3 : calls[t][k].stage = k /\ calls[t][k].output # None
              /\ calls[t][1].source = Job(t).original_image_data
              /\ calls[t][2].source = calls[t][1].output
              /\ calls[t][3].source = calls[t][2].output

\* a job has completed after one classification and three edit calls that
\* each returned
C34_Witness ==
    \E t \in 1..Len(threads) :
        /\ Job(t).status = "completed"
        /\ Len(threads[t].detections) = 1
        /\ Len(calls[t]) = 3
        /\ calls[t][3].source = Edited(2, Edited(1, Job(t).original_image_data))

\* C35: every job whose thread has been started comes to completed or to
\* error in the end, when every step of the thread that can be taken is
\* taken in the end.
C35_EveryJobEnds ==
    \A t \in 1..MaxSoloJobs :
        (t <= Len(threads)) ~>
            (t <= Len(threads) /\ Job(t).status \in {"completed", "error"})

\* a job whose first two edit calls returned and whose third raised has
\* ended in error, its thread over
C35_Witness ==
    \E t \in 1..Len(threads) :
        /\ threads[t].pc = "done"
        /\ Len(calls[t]) = 3
        /\ LastCall(t).text # None
        /\ Job(t).status = "error"

\* the function of the run has made its mask
MaskMade(fn) == run # None /\ run.fn = fn /\ run.results # <<>>

\* C36: the box of the outer ellipse of the safe radius mask of size S is the
\* box of the face's ellipse with each half-extent 1.6 times as long, to the
\* pixel lost in truncation, about the same centre; at S = 1000 it is
\* x in [100, 900], y in [50, 850]; and every pixel of the face's ellipse
\* is opaque.
C36_SafeRadiusOuterEllipse ==
    MaskMade("create_safe_radius_mask") =>
        LET S == run.args.target_size
            mask == run.results[1]
            face_w == mask.box.right - mask.box.left
            face_h == mask.box.bottom - mask.box.top
            outer_w == mask.border.right - mask.border.left
            outer_h == mask.border.bottom - mask.border.top
        IN  /\ mask.box = create_face_mask(S).box
            /\ mask.border.left + mask.border.right = mask.box.left + mask.box.right
            /\ mask.border.top + mask.border.bottom = mask.box.top + mask.box.bottom
            /\ 16 * face_w - 20 <= 10 * outer_w /\ 10 * outer_w <= 16 * face_w
            /\ 16 * face_h - 20 <= 10 * outer_h /\ 10 * outer_h <= 16 * face_h
            /\ S = 1000 => mask.border = [left |-> 100, top |-> 50,
                                          right |-> 900, bottom |-> 850]
            /\ S <= MaxMaskSize =>
                  \A x \in 0..(S - 1), y \in 0..(S - 1) :
                      InEllipse(mask.box, x, y) => AlphaSafeRadius(mask, x, y) = 255

\* C37: at the sizes 1024, 512 and 256 the box of the full head mask's
\* ellipse holds the box of the face mask's ellipse, and the head and body
\* mask makes transparent the ellipse of the full head mask and more.
C37_HeadMasksNested ==
    /\ MaskMade("create_full_head_mask") /\ run.args.target_size \in {1024, 512, 256} =>
          LET head == run.results[1].box
              face == create_face_mask(run.args.target_size).box
          IN  /\ head.left <= face.left
              /\ head.top <= face.top
              /\ head.right >= face.right
              /\ head.bottom >= face.bottom
    /\ MaskMade("create_head_and_body_mask") /\ run.args.target_size \in {1024, 512, 256} =>
          /\ run.results[1].box = create_full_head_mask(run.args.target_size).box
          /\ run.results[1].body.bottom > run.results[1].box.bottom

\* C38: when a thread has ended, with deletions that succeed, no temporary
\* file of it is left: not the file of the original, not the files of the
\* outputs of stages 1 and 2, not the image or mask file of any edit call.
C38_NoTempFileLeft ==
    \A t \in 1..Len(threads) :
        threads[t].pc = "done" =>
            /\ threads[t].temp_original = None
            /\ threads[t].handoff = {}
            /\ \A n \in 1..Len(calls[t]) : calls[t][n].temp_left = {}

\* a job has ended in error at stage 3, after the outputs of stages 1 and 2
\* were written to their files and three edit calls made their files, and
\* nothing is left
C38_Witness ==
    \E t \in 1..Len(threads) :
        /\ threads[t].pc = "done"
        /\ Job(t).status = "error"
        /\ Len(calls[t]) = 3
        /\ calls[t][1].output # None /\ calls[t][2].output # None
        /\ \A n \in 1..3 : calls[t][n].temp_created # {}
        /\ threads[t].temp_original = None
        /\ threads[t].handoff = {}

\* C39: a completed row has its breed and its three images and no
\* error_message; a row at generating_2 has its first image, and a row at
\* generating_final its first and second.
C39_StatusImpliesFields ==
    \A id \in 1..Len(db) :
        /\ db[id].status = "completed" =>
              /\ db[id].breed_detected # NoneStr
              /\ \A k \in 1..3 : Slot(db[id], k) # None
              /\ db[id].error_message = None
        /\ db[id].status = "generating_2" => db[id].image_1_data # None
        /\ db[id].status = "generating_final" =>
              db[id].image_1_data # None /\ db[id].image_2_data # None

\* one row is at generating_2 with its first image only while another is
\* completed with all it should have
C39_Witness ==
    \E a, b \in 1..Len(db) :
        /\ db[a].status = "generating_2"
        /\ db[a].image_1_data # None
        /\ db[a].image_2_data = None
        /\ db[b].status = "completed"
        /\ db[b].breed_detected \in BreedKeys
        /\ db[b].final_dog_image_data # None
        /\ db[b].error_message = None

====
